---- MODULE Spec2Model ----
(***************************************************************************)
(* Streaming guardrail agent: the redaction functions (redaction.ts), the  *)
(* two detector adapters and the three GuardrailStreamer entry points      *)
(* (confidential, PII size-only, PII size-or-sentence).                    *)
(*                                                                         *)
(* A JavaScript string is modelled as a sequence of one-character strings, *)
(* so that slicing, matching and replacement are computed character by     *)
(* character.                                                              *)
(***************************************************************************)
EXTENDS Integers, Sequences, FiniteSets, TLC

VARIABLES
    \* ---- redaction harness (specification SpecRedact) ----
    rpc,            \* "idle" | "input" | "once" | "twice"
    rFn,            \* which redactor is applied: "redactConfidential" | "redactPII"
    rText,          \* the text argument
    rItems,         \* the items argument (detector order)
    rOnce,          \* redact(rText, rItems)
    rTwice,         \* redact(rOnce, rItems)
    \* ---- one GuardrailStreamer session (specification Spec) ----
    variant,        \* which entry point runs: "confidential" | "pii" | "sentence"
    pc,             \* position of the background task
    ret,            \* where validateAndFlush returns to: "loop" | "complete"
    nEvents,        \* events pulled from aiStream.fullStream so far
    pendingBuffer,  \* let pendingBuffer
    carryTail,      \* let carryTail
    textToCheck,    \* const textToCheck (validateAndFlush local)
    items,          \* const piiItems / confItems (validateAndFlush local)
    sanitized,      \* let sanitized (validateAndFlush local)
    mainWrites,     \* strings accepted by mainStream.write, in order
    auditWrites,    \* strings accepted by auditStream.write, in order
    mainState,      \* "none" (not created) | "open" | "closed"
    auditState,     \* "none" (not created) | "open" | "closed"
    mainCloseCalls, \* calls of mainStream.close()
    auditCloseCalls,\* calls of auditStream.close()
    errorLogged,    \* ctx.logger.error('Streaming error: %o', ...) was called
    hist,           \* history record of the session (observations only)
    \* ---- the handler GuardrailStreamer(req, resp, ctx) ----
    hpc,            \* position of the handler
    response,       \* what the handler returned: "none" | "stream" | "text"
    prompt          \* const userPrompt: what the Generator is asked for

redactVars == <<rpc, rFn, rText, rItems, rOnce, rTwice>>
sessionVars == <<variant, pc, ret, nEvents, pendingBuffer, carryTail, textToCheck,
                 items, sanitized, mainWrites, auditWrites, mainState, auditState,
                 mainCloseCalls, auditCloseCalls, errorLogged, hist>>
handlerVars == <<hpc, response, prompt>>
vars == <<redactVars, sessionVars, handlerVars>>

(***************************************************************************)
(* Strings                                                                 *)
(***************************************************************************)
Rep(c, n) == [i \in 1..n |-> c]

Min(S) == CHOOSE x \in S : \A y \in S : x <= y

\* String.prototype.slice(start) for 0 <= start
SliceFrom(s, start) == SubSeq(s, start + 1, Len(s))

\* slice(n) written where slice(-n) is meant: the first n characters dropped
SliceLastForgotMinus(s, n) == SliceFrom(s, n)

\* String.prototype.slice(-n) for n > 0: the last n characters, or all of s
SliceLast(s, n) == IF Len(s) <= n THEN s ELSE SubSeq(s, Len(s) - n + 1, Len(s))

RECURSIVE Concat(_)
Concat(ss) == IF ss = <<>> THEN <<>> ELSE Head(ss) \o Concat(Tail(ss))

\* v occurs in text at 1-based position i
OccursAt(text, v, i) ==
    /\ i >= 1
    /\ i + Len(v) - 1 <= Len(text)
    /\ \A k \in 1..Len(v) : text[i + k - 1] = v[k]

Contains(text, v) == \E i \in 1..(Len(text) + 1) : OccursAt(text, v, i)

StartsWith(text, v) == OccursAt(text, v, 1)

\* Number -> decimal digits, as template literals format it
Digit(d) ==
    CASE d = 0 -> "0" [] d = 1 -> "1" [] d = 2 -> "2" [] d = 3 -> "3" [] d = 4 -> "4"
      [] d = 5 -> "5" [] d = 6 -> "6" [] d = 7 -> "7" [] d = 8 -> "8" [] d = 9 -> "9"

RECURSIVE ToDecimal(_)
ToDecimal(n) == IF n < 10 THEN <<Digit(n)>> ELSE ToDecimal(n \div 10) \o <<Digit(n % 10)>>

\* String.prototype.toUpperCase on the characters that occur in item types
UpperChar(c) ==
    CASE c = "a" -> "A" [] c = "c" -> "C" [] c = "d" -> "D" [] c = "e" -> "E"
      [] c = "f" -> "F" [] c = "g" -> "G" [] c = "h" -> "H" [] c = "i" -> "I"
      [] c = "l" -> "L" [] c = "m" -> "M" [] c = "n" -> "N" [] c = "o" -> "O"
      [] c = "p" -> "P" [] c = "r" -> "R" [] c = "s" -> "S" [] c = "t" -> "T"
      [] c = "u" -> "U" [] c = "y" -> "Y" [] OTHER -> c

toUpperCase(s) == [i \in 1..Len(s) |-> UpperChar(s[i])]

(***************************************************************************)
(* Item types (the zod enums)                                              *)
(***************************************************************************)
TyEmail == <<"e", "m", "a", "i", "l">>
TyPhone == <<"p", "h", "o", "n", "e">>
TySsn == <<"s", "s", "n">>
TyCreditCard == <<"c", "r", "e", "d", "i", "t", "_", "c", "a", "r", "d">>
PiiTypes == {TyEmail, TyPhone, TySsn, TyCreditCard}

TyFinancial == <<"f", "i", "n", "a", "n", "c", "i", "a", "l">>
TyProduct == <<"p", "r", "o", "d", "u", "c", "t">>
TyRnd == <<"r", "n", "d">>
TyContact == <<"c", "o", "n", "t", "a", "c", "t">>
TyStrategy == <<"s", "t", "r", "a", "t", "e", "g", "y">>
ConfidentialTypes == {TyFinancial, TyProduct, TyRnd, TyContact, TyStrategy}

Item(t, v) == [type |-> t, value |-> v]

(***************************************************************************)
(* redaction.ts                                                            *)
(***************************************************************************)
REDACTION_MARKERS(t) ==
    CASE t = TyFinancial ->
           <<"[", "R", "E", "D", "A", "C", "T", "E", "D", ":",
             "F", "I", "N", "A", "N", "C", "I", "A", "L", "]">>
      [] t = TyProduct ->
           <<"[", "R", "E", "D", "A", "C", "T", "E", "D", ":",
             "P", "R", "O", "D", "U", "C", "T", "]">>
      [] t = TyRnd ->
           <<"[", "R", "E", "D", "A", "C", "T", "E", "D", ":", "R", "N", "D", "]">>
      [] t = TyContact ->
           <<"[", "R", "E", "D", "A", "C", "T", "E", "D", ":",
             "C", "O", "N", "T", "A", "C", "T", "]">>
      [] t = TyStrategy ->
           <<"[", "R", "E", "D", "A", "C", "T", "E", "D", ":",
             "S", "T", "R", "A", "T", "E", "G", "Y", "]">>

\* the marker without toUpperCase()
PiiMarkerLower(t) ==
    <<"[", "R", "E", "D", "A", "C", "T", "E", "D", ":">> \o t \o <<"]">>

\* `[REDACTED:${item.type.toUpperCase()}]`
PiiMarker(t) ==
    <<"[", "R", "E", "D", "A", "C", "T", "E", "D", ":">> \o toUpperCase(t) \o <<"]">>

\* The replacement inserted at every position when the search value is empty:
\* "ab".replaceAll("", m) = m + "a" + m + "b" + m
Interleave(text, m) ==
    LET b == Len(m) + 1
    IN  [k \in 1..(Len(text) * b + Len(m)) |->
            IF (k - 1) % b < Len(m) THEN m[((k - 1) % b) + 1] ELSE text[((k - 1) \div b) + 1]]

\* String.prototype.replaceAll(value, marker) with a string pattern: every
\* non-overlapping occurrence, leftmost first; `from` is the scan position.
RECURSIVE StringReplaceFrom(_, _, _, _)
StringReplaceFrom(text, v, m, from) ==
    LET hits == {i \in from..(Len(text) - Len(v) + 1) : OccursAt(text, v, i)}
    IN  IF hits = {} THEN SubSeq(text, from, Len(text))
        ELSE LET i == Min(hits)
             IN  SubSeq(text, from, i - 1) \o m \o StringReplaceFrom(text, v, m, i + Len(v))

\* String.prototype.replace(value, marker) with a string pattern: the first
\* occurrence only
replaceFirstOnly(text, v, m) ==
    LET hits == {i \in 1..(Len(text) - Len(v) + 1) : OccursAt(text, v, i)}
    IN  IF hits = {} THEN text
        ELSE LET i == Min(hits)
             IN  SubSeq(text, 1, i - 1) \o m \o SubSeq(text, i + Len(v), Len(text))

replaceAll(text, v, m) ==
    IF v = <<>> THEN Interleave(text, m) ELSE StringReplaceFrom(text, v, m, 1)

\* The characters of the class /[.*+?^${}()|[\]\\]/
RegExpSpecial == {".", "*", "+", "?", "^", "$", "{", "}", "(", ")", "|", "[", "]", "\\"}

\* item.value.replace(/[.*+?^${}()|[\]\\]/g, '\\$&')
RECURSIVE EscapeRegExp(_)
EscapeRegExp(v) ==
    IF v = <<>> THEN <<>>
    ELSE (IF Head(v) \in RegExpSpecial THEN <<"\\", Head(v)>> ELSE <<Head(v)>>)
         \o EscapeRegExp(Tail(v))

\* new RegExp(escaped, 'g'): the pattern as a sequence of atoms. A backslash
\* makes the next character a literal; an unescaped "." matches any character
\* but a line terminator; every other character stands for itself.
RECURSIVE RegExpAtoms(_)
RegExpAtoms(p) ==
    IF p = <<>> THEN <<>>
    ELSE IF Head(p) = "\\" /\ Len(p) >= 2
         THEN <<[any |-> FALSE, c |-> p[2]]>> \o RegExpAtoms(SubSeq(p, 3, Len(p)))
    ELSE IF Head(p) = "."
         THEN <<[any |-> TRUE, c |-> "."]>> \o RegExpAtoms(Tail(p))
    ELSE <<[any |-> FALSE, c |-> Head(p)]>> \o RegExpAtoms(Tail(p))

AtomsMatchAt(text, atoms, i) ==
    /\ i >= 1
    /\ i + Len(atoms) - 1 <= Len(text)
    /\ \A k \in 1..Len(atoms) :
          IF atoms[k].any THEN text[i + k - 1] \notin {"\n", "\r"}
          ELSE text[i + k - 1] = atoms[k].c

\* text.replace(new RegExp(escaped, 'g'), marker)
RECURSIVE RegExpReplaceFrom(_, _, _, _)
RegExpReplaceFrom(text, atoms, m, from) ==
    LET hits == {i \in from..(Len(text) - Len(atoms) + 1) : AtomsMatchAt(text, atoms, i)}
    IN  IF hits = {} THEN SubSeq(text, from, Len(text))
        ELSE LET i == Min(hits)
             IN  SubSeq(text, from, i - 1) \o m
                 \o RegExpReplaceFrom(text, atoms, m, i + Len(atoms))

RegExpReplace(text, pattern, m) ==
    LET atoms == RegExpAtoms(pattern)
    IN  IF atoms = <<>> THEN Interleave(text, m) ELSE RegExpReplaceFrom(text, atoms, m, 1)

\* [...items].sort((a, b) => b.value.length - a.value.length): stable, longest first
RECURSIVE SortByLengthDesc(_)
SortByLengthDesc(its) ==
    IF its = <<>> THEN <<>>
    ELSE LET front == SortByLengthDesc(SubSeq(its, 1, Len(its) - 1))
             x == its[Len(its)]
             k == Cardinality({i \in 1..Len(front) : Len(front[i].value) >= Len(x.value)})
         IN  SubSeq(front, 1, k) \o <<x>> \o SubSeq(front, k + 1, Len(front))

\* the for loop of redactConfidential over the sorted items, from index k
RECURSIVE ConfidentialLoop(_, _, _)
ConfidentialLoop(text, sorted, k) ==
    IF k > Len(sorted) THEN text
    ELSE IF sorted[k].value = <<>> THEN ConfidentialLoop(text, sorted, k + 1)
    ELSE ConfidentialLoop(
             RegExpReplace(text, EscapeRegExp(sorted[k].value),
                           REDACTION_MARKERS(sorted[k].type)),
             sorted, k + 1)

redactConfidential(text, its) ==
    IF Len(its) = 0 THEN text ELSE ConfidentialLoop(text, SortByLengthDesc(its), 1)

\* the for loop of redactPII over the items in the order given, from index k
RECURSIVE PiiLoop(_, _, _)
PiiLoop(text, its, k) ==
    IF k > Len(its) THEN text
    ELSE PiiLoop(replaceAll(text, its[k].value, PiiMarker(its[k].type)), its, k + 1)

redactPII(text, piiItems) ==
    IF Len(piiItems) = 0 THEN text ELSE PiiLoop(text, piiItems, 1)

(***************************************************************************)
(* Redaction harness: the two redactors applied to drawn texts and items   *)
(***************************************************************************)
MaxTextLen == 2
MaxValueLen == 2
MaxItems == 2
\* the second pass is applied to first-pass results of at most this length
MaxRedactedLen == 40

\* "a": a plain character; ".": a character special to RegExp; "E": a
\* character that also occurs in every marker
RedactAlphabet == {"a", ".", "E"}

StringsUpTo(n) == UNION {[1..k -> RedactAlphabet] : k \in 0..n}

TypesOf(fn) == IF fn = "redactConfidential" THEN ConfidentialTypes ELSE PiiTypes

ItemsOf(fn) == {Item(t, v) : t \in TypesOf(fn), v \in StringsUpTo(MaxValueLen)}

ItemListsOf(fn) == UNION {[1..k -> ItemsOf(fn)] : k \in 0..MaxItems}

Redact(fn, text, its) ==
    IF fn = "redactConfidential" THEN redactConfidential(text, its) ELSE redactPII(text, its)

MarkerOf(fn, t) == IF fn = "redactConfidential" THEN REDACTION_MARKERS(t) ELSE PiiMarker(t)

RedactOnce ==
    /\ rpc = "input"
    /\ rOnce' = Redact(rFn, rText, rItems)
    /\ rpc' = "once"
    /\ UNCHANGED <<rFn, rText, rItems, rTwice, sessionVars, handlerVars>>

RedactTwice ==
    /\ rpc = "once"
    /\ Len(rOnce) <= MaxRedactedLen
    /\ rTwice' = Redact(rFn, rOnce, rItems)
    /\ rpc' = "twice"
    /\ UNCHANGED <<rFn, rText, rItems, rOnce, sessionVars, handlerVars>>

RedactIdle ==
    /\ rpc = "idle" /\ rFn = "redactPII" /\ rText = <<>> /\ rItems = <<>>
    /\ rOnce = <<>> /\ rTwice = <<>>

(***************************************************************************)
(* GuardrailStreamer: constants, the Generator and the Detector            *)
(***************************************************************************)
Variants == {"confidential", "pii", "sentence"}
SizeOnly == {"confidential", "pii"}

CHAR_THRESHOLD == 200
MIN_SENTENCE_CHARS == 80
CARRY_TAIL_SIZE_ONLY == 64
CARRY_TAIL_SENTENCE == 32

CARRY_TAIL_LENGTH(v) == IF v = "sentence" THEN CARRY_TAIL_SENTENCE ELSE CARRY_TAIL_SIZE_ONLY

\* events pulled from aiStream.fullStream in one session, the end excluded
MaxEvents == 3

\* characters matched by \s that the deltas use
WhiteSpace == {" ", "\t", "\n", "\r"}

\* SENTENCE_END.exec(buffer) finds a match: /[.!?]\s/
SENTENCE_END(buf) ==
    \E i \in 1..(Len(buf) - 1) : buf[i] \in {".", "!", "?"} /\ buf[i + 1] \in WhiteSpace

\* the flush decision with > for >= in the size test
ShouldFlushAbove(v, buf) ==
    IF v = "sentence"
    THEN \/ Len(buf) > CHAR_THRESHOLD
         \/ SENTENCE_END(buf) /\ Len(buf) >= MIN_SENTENCE_CHARS
    ELSE Len(buf) > CHAR_THRESHOLD

\* the flush decision without the minimum length of a sentence flush
ShouldFlushAnyLength(v, buf) ==
    IF v = "sentence"
    THEN Len(buf) >= CHAR_THRESHOLD \/ SENTENCE_END(buf)
    ELSE Len(buf) >= CHAR_THRESHOLD

\* the flush decision taken after a delta was appended
ShouldFlush(v, buf) ==
    IF v = "sentence"
    THEN \/ Len(buf) >= CHAR_THRESHOLD
         \/ SENTENCE_END(buf) /\ Len(buf) >= MIN_SENTENCE_CHARS
    ELSE Len(buf) >= CHAR_THRESHOLD

\* The sensitive value the Generator's text may hold, and a second value the
\* Detector may report (a part of the first)
SecretValue == <<"j", "o", "h", "n", "@", "x", ".", "c", "o", "m">>
OtherValue == <<"x", ".", "c", "o", "m">>

SecretItem(v) == Item(IF v = "confidential" THEN TyContact ELSE TyEmail, SecretValue)
OtherItem(v) == Item(IF v = "confidential" THEN TyProduct ELSE TyPhone, OtherValue)

\* text deltas the Generator may produce:
\*   DeltaHead  199 characters ending with the first five of SecretValue,
\*   DeltaRest   79 characters: the rest of SecretValue, then SecretValue whole
\*               and a sentence end,
\*   DeltaBlank  one space
DeltaHead == Rep("a", 194) \o SubSeq(SecretValue, 1, 5)
DeltaRest ==
    SubSeq(SecretValue, 6, 10) \o <<" ", "o", "r", " ">> \o SecretValue \o <<".", " ">>
    \o Rep("b", 58)
DeltaBlank == <<" ">>
Deltas == {DeltaHead, DeltaRest, DeltaBlank}

\* item lists the Detector's model may answer with
DetectorAnswers(v) ==
    {<<>>, <<SecretItem(v)>>, <<OtherItem(v)>>,
     <<SecretItem(v), OtherItem(v)>>, <<OtherItem(v), SecretItem(v)>>}

\* What the user prompt makes the Generator write about: "boundary", the
\* deltas above; "contacts", an e-mail address and a phone number in two short
\* deltas
Prompts == {"boundary", "contacts"}

PhoneValue == <<"5", "5", "5", "-", "1", "2", "3", "-", "4", "5", "6", "7">>

PhoneItem(v) == Item(IF v = "confidential" THEN TyContact ELSE TyPhone, PhoneValue)

DeltaEmail ==
    <<"M", "y", " ", "e", "m", "a", "i", "l", " ", "i", "s", " ">> \o SecretValue
    \o <<" ", "a", "n", "d", " ">>
DeltaPhone ==
    <<"m", "y", " ", "p", "h", "o", "n", "e", " ", "i", "s", " ">> \o PhoneValue \o <<".">>
ContactDeltas == {DeltaEmail, DeltaPhone}

ContactAnswers(v) ==
    {<<>>, <<SecretItem(v), PhoneItem(v)>>, <<PhoneItem(v), SecretItem(v)>>}

DeltasFor(p) == IF p = "contacts" THEN ContactDeltas ELSE Deltas

AnswersFor(p, v) == IF p = "contacts" THEN ContactAnswers(v) ELSE DetectorAnswers(v)

\* the answer of a Detector that reports exactly the sensitive values that
\* occur verbatim in the text it is given
ExactAnswer(v, text) == IF Contains(text, SecretValue) THEN <<SecretItem(v)>> ELSE <<>>

\* !text || !text.trim()
IsBlank(text) == \A i \in 1..Len(text) : text[i] \in WhiteSpace

RedactFor(v, text, its) ==
    IF v = "confidential" THEN redactConfidential(text, its) ELSE redactPII(text, its)

(***************************************************************************)
(* Audit lines                                                             *)
(***************************************************************************)
RECURSIVE JoinTypes(_)
JoinTypes(its) ==
    IF its = <<>> THEN <<>>
    ELSE IF Len(its) = 1 THEN its[1].type
    ELSE its[1].type \o <<",", " ">> \o JoinTypes(Tail(its))

StartingLine(v) ==
    IF v = "confidential"
    THEN <<"S", "t", "a", "r", "t", "i", "n", "g", " ", "c", "o", "n", "f", "i", "d", "e",
           "n", "t", "i", "a", "l", "i", "t", "y", " ", "g", "u", "a", "r", "d", "r", "a",
           "i", "l", ".", ".", ".", "\n">>
    ELSE <<"S", "t", "a", "r", "t", "i", "n", "g", " ", "P", "I", "I", " ", "g", "u", "a",
           "r", "d", "r", "a", "i", "l", ".", ".", ".", "\n">>

CheckingLine(n) ==
    <<"C", "h", "e", "c", "k", "i", "n", "g", " ">> \o ToDecimal(n)
    \o <<" ", "c", "h", "a", "r", "s", ".", ".", ".", "\n">>

FoundPrefix == <<"F", "o", "u", "n", "d", " ">>

FoundLine(v, its) ==
    FoundPrefix \o ToDecimal(Len(its))
    \o (IF v = "confidential"
        THEN <<" ", "c", "o", "n", "f", "i", "d", "e", "n", "t", "i", "a", "l", " ",
               "i", "t", "e", "m", "(", "s", ")", ":", " ">>
        ELSE <<" ", "P", "I", "I", " ", "i", "t", "e", "m", "(", "s", ")", ":", " ">>)
    \o JoinTypes(its) \o <<"\n">>

NothingFoundLine(v) ==
    IF v = "confidential"
    THEN <<"N", "o", " ", "c", "o", "n", "f", "i", "d", "e", "n", "t", "i", "a", "l", " ",
           "i", "n", "f", "o", " ", "f", "o", "u", "n", "d", ".", "\n">>
    ELSE <<"N", "o", " ", "P", "I", "I", " ", "f", "o", "u", "n", "d", ".", "\n">>

EmittedLine(n) ==
    <<"E", "m", "i", "t", "t", "e", "d", " ">> \o ToDecimal(n)
    \o <<" ", "c", "h", "a", "r", "s", ".", "\n">>

FinalCheckLine(n) ==
    <<"F", "i", "n", "a", "l", " ", "c", "h", "e", "c", "k", " ">> \o ToDecimal(n)
    \o <<" ", "c", "h", "a", "r", "s", ".", ".", ".", "\n">>

CompleteLine ==
    <<"S", "t", "r", "e", "a", "m", " ", "c", "o", "m", "p", "l", "e", "t", "e", ".", "\n">>

ErrorLine ==
    <<"E", "r", "r", "o", "r", " ", "o", "c", "c", "u", "r", "r", "e", "d", ";", " ",
      "c", "l", "o", "s", "i", "n", "g", " ", "s", "t", "r", "e", "a", "m", "s", ".", "\n">>

(***************************************************************************)
(* GuardrailStreamer: the background task passed to ctx.waitUntil          *)
(*                                                                         *)
(* Every await is one step.  A write or a close of a channel either        *)
(* succeeds or throws; a write to a closed channel throws.  The Detector   *)
(* adapters never throw (they catch and return []).                        *)
(***************************************************************************)
flushVars == <<textToCheck, items, sanitized>>
closeVars == <<mainState, auditState, mainCloseCalls, auditCloseCalls>>

HistInit ==
    [raw |-> <<>>,            \* the text deltas pulled so far, concatenated
     detected |-> <<>>,       \* every item the Detector returned, in order
     calls |-> 0,             \* Detector calls made
     failures |-> 0,          \* Detector calls that failed (answered [] by the catch)
     exact |-> TRUE,          \* every answer so far was ExactAnswer of its text
     flushes |-> 0,           \* validateAndFlush calls that returned
     headLen |-> 0,           \* length of the SecretValue prefix ending the previous buffer
     split |-> FALSE,         \* SecretValue was split by a flush boundary
     ended |-> "",            \* how the loop ended: "finish" | "exhausted"
     cause |-> "",            \* what threw first: "generator" | "mainWrite" | "auditWrite" | "close"
     recordTried |-> FALSE,   \* the catch block tried to write ErrorLine
     catchMainTried |-> FALSE,  \* the catch block called mainStream.close()
     catchAuditTried |-> FALSE, \* the catch block called auditStream.close()
     escaped |-> "",          \* what the catch block let escape: "write" | "close"
     mainCloses |-> 0,        \* mainStream.close() calls that succeeded
     auditCloses |-> 0,       \* auditStream.close() calls that succeeded
     errPending |-> 0,        \* pendingBuffer.length when the first exception was thrown
     errFlushes |-> 0,        \* validateAndFlush calls returned by then
     setup |-> "",            \* what threw in the handler: "request" | "main" | "audit"
     order |-> <<>>,          \* the writes and the deltas in the order they happened:
                              \* <<"audit", k>>, <<"main", k>> (k-th write), <<"delta", k>>
     endPending |-> 0,        \* pendingBuffer.length when the loop ended
     endFlushes |-> 0,        \* validateAndFlush calls returned when the loop ended
     endRaw |-> <<>>,         \* the text pulled when the loop ended
     lastTail |-> <<>>,       \* carryTail at the start of the last flush that returned
     lastBuffer |-> <<>>,     \* the buffer given to that flush
     lastItems |-> <<>>,      \* the items the Detector returned to it
     lastSanitized |-> <<>>]  \* its sanitized string

SessionIdle ==
    /\ variant = "pii" /\ pc = "idle" /\ ret = "loop" /\ nEvents = 0
    /\ pendingBuffer = <<>> /\ carryTail = <<>>
    /\ textToCheck = <<>> /\ items = <<>> /\ sanitized = <<>>
    /\ mainWrites = <<>> /\ auditWrites = <<>>
    /\ mainState = "none" /\ auditState = "none"
    /\ mainCloseCalls = 0 /\ auditCloseCalls = 0
    /\ errorLogged = FALSE /\ hist = HistInit
    /\ hpc = "idle" /\ response = "none" /\ prompt = ""

\* GuardrailStreamer(req, resp, ctx) was called: nothing is read or created yet
Init ==
    /\ RedactIdle
    /\ variant \in Variants
    /\ pc = "notStarted" /\ ret = "loop" /\ nEvents = 0
    /\ pendingBuffer = <<>> /\ carryTail = <<>>
    /\ textToCheck = <<>> /\ items = <<>> /\ sanitized = <<>>
    /\ mainWrites = <<>> /\ auditWrites = <<>>
    /\ mainState = "none" /\ auditState = "none"
    /\ mainCloseCalls = 0 /\ auditCloseCalls = 0
    /\ errorLogged = FALSE /\ hist = HistInit
    /\ hpc = "readRequest" /\ response = "none" /\ prompt = ""

(***************************************************************************)
(* The handler: read the prompt, create the two channels, hand the         *)
(* background task to ctx.waitUntil and return the main channel's reader   *)
(***************************************************************************)
taskVars == <<variant, pc, ret, nEvents, pendingBuffer, carryTail, flushVars,
              mainWrites, auditWrites, mainCloseCalls, auditCloseCalls, errorLogged>>

\* a failure of the setup that is not reported: the handler goes on to start
\* the task
SetupFailureContinues(what) ==
    /\ hpc' = "launch"
    /\ response' = response
    /\ hist' = [hist EXCEPT !.setup = what]

\* outer catch: ctx.logger.error('Error running agent:', error);
\* return resp.text('Sorry, there was an error processing your request.')
SetupFailure(what) ==
    /\ hpc' = "returned"
    /\ response' = "text"
    /\ hist' = [hist EXCEPT !.setup = what]

\* const userPrompt = await req.data.text() ...  (the sentence variant first
\* tries req.data.json(), whose failure it catches)
ReadRequest ==
    /\ hpc = "readRequest"
    /\ \/ /\ prompt' \in Prompts
          /\ hpc' = "createMain"
          /\ UNCHANGED <<response, hist>>
       \/ /\ SetupFailure("request")
          /\ UNCHANGED prompt
    /\ UNCHANGED <<taskVars, mainState, auditState, redactVars>>

\* const mainStream = await ctx.stream.create('main', ...)
CreateMain ==
    /\ hpc = "createMain"
    /\ \/ /\ mainState' = "open"
          /\ hpc' = "createAudit"
          /\ UNCHANGED <<response, hist>>
       \/ /\ SetupFailure("main")
          /\ UNCHANGED mainState
    /\ UNCHANGED <<taskVars, auditState, prompt, redactVars>>

\* const auditStream = await ctx.stream.create('guardrail-audit', ...)
CreateAudit ==
    /\ hpc = "createAudit"
    /\ \/ /\ auditState' = "open"
          /\ hpc' = "launch"
          /\ UNCHANGED <<response, hist>>
       \/ /\ SetupFailure("audit")
          /\ UNCHANGED auditState
    /\ UNCHANGED <<taskVars, mainState, prompt, redactVars>>

\* the handler awaiting the task before it returns the reader
LaunchAwaitsTask ==
    /\ hpc = "launch"
    /\ pc' = "start"
    /\ hpc' = "awaitTask"
    /\ UNCHANGED <<variant, ret, nEvents, pendingBuffer, carryTail, flushVars,
                   mainWrites, auditWrites, closeVars, errorLogged, hist, response,
                   prompt, redactVars>>

\* ctx.waitUntil((async () => {...})()); return resp.stream(mainStream.getReader()):
\* the async function runs up to its first await, then the handler returns, with
\* no await in between (only an awaited call is taken to throw)
Launch ==
    /\ hpc = "launch"
    /\ pc' = "start"
    /\ hpc' = "returned"
    /\ response' = "stream"
    /\ UNCHANGED <<variant, ret, nEvents, pendingBuffer, carryTail, flushVars,
                   mainWrites, auditWrites, closeVars, errorLogged, hist, prompt,
                   redactVars>>

\* the first exception of the try block is the one the catch block receives
Thrown(cause) ==
    [hist EXCEPT !.cause = cause,
                 !.errPending = Len(pendingBuffer),
                 !.errFlushes = hist.flushes]

\* the k-th write to a channel, or the k-th text delta, happens now
Logged(what, k) == [hist EXCEPT !.order = Append(@, <<what, k>>)]

\* await auditStream.write(line), then continue at `next`
AuditWrite(line, next) ==
    \/ /\ auditState = "open"
       /\ auditWrites' = Append(auditWrites, line)
       /\ pc' = next
       /\ hist' = Logged("audit", Len(auditWrites) + 1)
    \/ /\ pc' = "catch"
       /\ hist' = Thrown("auditWrite")
       /\ UNCHANGED auditWrites

\* length of the longest proper, non-empty prefix of SecretValue that ends buf
HeadLen(buf) ==
    LET ps == {p \in 1..(Len(SecretValue) - 1) :
                 /\ p <= Len(buf)
                 /\ SubSeq(buf, Len(buf) - p + 1, Len(buf)) = SubSeq(SecretValue, 1, p)}
    IN  IF ps = {} THEN 0 ELSE CHOOSE p \in ps : \A q \in ps : q <= p

\* await auditStream.write('Starting ...'); await streamText(...)
Start ==
    /\ pc = "start"
    /\ AuditWrite(StartingLine(variant), "loop")
    /\ UNCHANGED <<variant, ret, nEvents, pendingBuffer, carryTail, flushVars,
                   mainWrites, closeVars, errorLogged, redactVars, handlerVars>>

\* validateAndFlush called without await: the loop pulls the next delta while
\* the Detector call of the flush is pending
TextDeltaNotAwaited ==
    /\ pc \in {"loop", "detect"}
    /\ nEvents < MaxEvents
    /\ \E d \in DeltasFor(prompt) :
          /\ pendingBuffer' = pendingBuffer \o d
          /\ hist' = [hist EXCEPT !.raw = @ \o d,
                                  !.order = Append(@, <<"delta", nEvents + 1>>)]
    /\ pc' = IF pc = "loop" /\ ShouldFlush(variant, pendingBuffer') THEN "check" ELSE pc
    /\ ret' = "loop"
    /\ nEvents' = nEvents + 1
    /\ UNCHANGED <<variant, carryTail, flushVars, mainWrites, auditWrites, closeVars,
                   errorLogged, redactVars, handlerVars>>

\* for await: a 'text-delta' event
TextDelta ==
    /\ pc = "loop"
    /\ nEvents < MaxEvents
    /\ \E d \in DeltasFor(prompt) :
          /\ pendingBuffer' = pendingBuffer \o d
          /\ hist' = [hist EXCEPT !.raw = @ \o d,
                                  !.order = Append(@, <<"delta", nEvents + 1>>)]
    /\ pc' = IF ShouldFlush(variant, pendingBuffer') THEN "check" ELSE "loop"
    /\ ret' = "loop"
    /\ nEvents' = nEvents + 1
    /\ UNCHANGED <<variant, carryTail, flushVars, mainWrites, auditWrites, closeVars,
                   errorLogged, redactVars, handlerVars>>

\* for await: an event that is neither 'text-delta' nor 'finish'
OtherEvent ==
    /\ pc = "loop"
    /\ nEvents < MaxEvents
    /\ nEvents' = nEvents + 1
    /\ UNCHANGED <<variant, pc, ret, pendingBuffer, carryTail, flushVars, mainWrites,
                   auditWrites, closeVars, errorLogged, hist, redactVars, handlerVars>>

\* the loop's exit without the flush of the remaining buffer
AfterLoopNoDrain == "complete"

AfterLoop == IF Len(pendingBuffer) > 0 THEN "finalCheck" ELSE "complete"

LoopEnded(how) ==
    [hist EXCEPT !.ended = how,
                 !.endPending = Len(pendingBuffer),
                 !.endFlushes = hist.flushes,
                 !.endRaw = hist.raw]

\* for await: a 'finish' event (break)
FinishEvent ==
    /\ pc = "loop"
    /\ pc' = AfterLoop
    /\ hist' = LoopEnded("finish")
    /\ UNCHANGED <<variant, ret, nEvents, pendingBuffer, carryTail, flushVars, mainWrites,
                   auditWrites, closeVars, errorLogged, redactVars, handlerVars>>

\* for await: the event sequence is exhausted
StreamEnd ==
    /\ pc = "loop"
    /\ pc' = AfterLoop
    /\ hist' = LoopEnded("exhausted")
    /\ UNCHANGED <<variant, ret, nEvents, pendingBuffer, carryTail, flushVars, mainWrites,
                   auditWrites, closeVars, errorLogged, redactVars, handlerVars>>

\* streamText or the event iterator throws
GeneratorFails ==
    /\ pc = "loop"
    /\ pc' = "catch"
    /\ hist' = Thrown("generator")
    /\ UNCHANGED <<variant, ret, nEvents, pendingBuffer, carryTail, flushVars, mainWrites,
                   auditWrites, closeVars, errorLogged, redactVars, handlerVars>>

\* await auditStream.write(`Final check ${pendingBuffer.length} chars...\n`)
FinalCheck ==
    /\ pc = "finalCheck"
    /\ AuditWrite(FinalCheckLine(Len(pendingBuffer)), "check")
    /\ ret' = "complete"
    /\ UNCHANGED <<variant, nEvents, pendingBuffer, carryTail, flushVars, mainWrites,
                   closeVars, errorLogged, redactVars, handlerVars>>

\* validateAndFlush: textToCheck = carryTail + buffer; write 'Checking ...'
Check ==
    /\ pc = "check"
    /\ textToCheck' = carryTail \o pendingBuffer
    /\ AuditWrite(CheckingLine(Len(textToCheck')), "detect")
    /\ UNCHANGED <<variant, ret, nEvents, pendingBuffer, carryTail, items, sanitized,
                   mainWrites, closeVars, errorLogged, redactVars, handlerVars>>

Answered(ans, failed) ==
    [hist EXCEPT !.detected = @ \o ans,
                 !.calls = @ + 1,
                 !.failures = @ + (IF failed THEN 1 ELSE 0),
                 !.exact = @ /\ ans = ExactAnswer(variant, textToCheck),
                 !.split = @ \/ (/\ hist.headLen > 0
                                 /\ StartsWith(pendingBuffer,
                                       SubSeq(SecretValue, hist.headLen + 1,
                                              Len(SecretValue))))]

\* validateAndFlush: await detectPII(textToCheck) / detectConfidential(textToCheck)
Detect ==
    /\ pc = "detect"
    /\ \/ /\ variant = "confidential" /\ IsBlank(textToCheck)
          /\ items' = <<>>
          /\ hist' = Answered(<<>>, FALSE)
       \/ /\ ~(variant = "confidential" /\ IsBlank(textToCheck))
          /\ \E ans \in AnswersFor(prompt, variant) :
                /\ items' = ans
                /\ hist' = Answered(ans, FALSE)
       \/ /\ ~(variant = "confidential" /\ IsBlank(textToCheck))
          /\ items' = <<>>
          /\ hist' = Answered(<<>>, TRUE)
    /\ pc' = "report"
    /\ UNCHANGED <<variant, ret, nEvents, pendingBuffer, carryTail, textToCheck,
                   sanitized, mainWrites, auditWrites, closeVars, errorLogged,
                   redactVars, handlerVars>>

\* validateAndFlush: redact, then write 'Found ...' or 'No ... found.'
Report ==
    /\ pc = "report"
    /\ sanitized' = IF Len(items) > 0 THEN RedactFor(variant, textToCheck, items)
                    ELSE textToCheck
    /\ AuditWrite(IF Len(items) > 0 THEN FoundLine(variant, items)
                  ELSE NothingFoundLine(variant), "emit")
    /\ UNCHANGED <<variant, ret, nEvents, pendingBuffer, carryTail, textToCheck, items,
                   mainWrites, closeVars, errorLogged, redactVars, handlerVars>>

\* what validateAndFlush passes to mainStream.write
ToEmit(v, san, tail) == IF v = "sentence" THEN san ELSE SliceFrom(san, Len(tail))

\* validateAndFlush writes to main: always in the sentence variant, and
\* in the size-only variants if (toEmit)
WritesMain(v, san, tail) == v = "sentence" \/ ToEmit(v, san, tail) # <<>>

\* validateAndFlush: carryTail = sanitized.slice(-CARRY_TAIL_LENGTH), return;
\* the loop then clears pendingBuffer
FinishFlush(h) ==
    /\ carryTail' = SliceLast(sanitized, CARRY_TAIL_LENGTH(variant))
    /\ pendingBuffer' = IF ret = "loop" THEN <<>> ELSE pendingBuffer
    /\ pc' = ret
    /\ textToCheck' = <<>> /\ items' = <<>> /\ sanitized' = <<>>
    /\ hist' = [h EXCEPT !.flushes = @ + 1,
                                !.headLen = HeadLen(pendingBuffer),
                                !.lastTail = carryTail,
                                !.lastBuffer = pendingBuffer,
                                !.lastItems = items,
                                !.lastSanitized = sanitized]

\* validateAndFlush: await mainStream.write(...)
Emit ==
    /\ pc = "emit"
    /\ IF WritesMain(variant, sanitized, carryTail)
       THEN \/ /\ mainState = "open"
               /\ mainWrites' = Append(mainWrites, ToEmit(variant, sanitized, carryTail))
               /\ IF variant = "sentence"
                  THEN FinishFlush(Logged("main", Len(mainWrites) + 1))
                  ELSE /\ pc' = "emitted"
                       /\ hist' = Logged("main", Len(mainWrites) + 1)
                       /\ UNCHANGED <<pendingBuffer, carryTail, flushVars>>
            \/ /\ pc' = "catch"
               /\ hist' = Thrown("mainWrite")
               /\ UNCHANGED <<mainWrites, pendingBuffer, carryTail, flushVars>>
       ELSE /\ FinishFlush(hist)
            /\ UNCHANGED mainWrites
    /\ UNCHANGED <<variant, ret, nEvents, auditWrites, closeVars, errorLogged,
                   redactVars, handlerVars>>

\* validateAndFlush: await auditStream.write(`Emitted ${toEmit.length} chars.\n`)
Emitted ==
    /\ pc = "emitted"
    /\ \/ /\ auditState = "open"
          /\ auditWrites' =
                Append(auditWrites,
                       EmittedLine(Len(ToEmit(variant, sanitized, carryTail))))
          /\ FinishFlush(Logged("audit", Len(auditWrites) + 1))
       \/ /\ pc' = "catch"
          /\ hist' = Thrown("auditWrite")
          /\ UNCHANGED <<auditWrites, pendingBuffer, carryTail, flushVars>>
    /\ UNCHANGED <<variant, ret, nEvents, mainWrites, closeVars, errorLogged,
                   redactVars, handlerVars>>

\* await auditStream.write('Stream complete.\n')
Complete ==
    /\ pc = "complete"
    /\ AuditWrite(CompleteLine, "closeMain")
    /\ UNCHANGED <<variant, ret, nEvents, pendingBuffer, carryTail, flushVars, mainWrites,
                   closeVars, errorLogged, redactVars, handlerVars>>

\* try block: await mainStream.close()
CloseMain ==
    /\ pc = "closeMain"
    /\ mainCloseCalls' = mainCloseCalls + 1
    /\ \/ /\ mainState' = "closed"
          /\ pc' = "closeAudit"
          /\ hist' = [hist EXCEPT !.mainCloses = @ + 1]
       \/ /\ pc' = "catch"
          /\ hist' = Thrown("close")
          /\ UNCHANGED mainState
    /\ UNCHANGED <<variant, ret, nEvents, pendingBuffer, carryTail, flushVars, mainWrites,
                   auditWrites, auditState, auditCloseCalls, errorLogged,
                   redactVars, handlerVars>>

\* try block: await auditStream.close()
CloseAudit ==
    /\ pc = "closeAudit"
    /\ auditCloseCalls' = auditCloseCalls + 1
    /\ \/ /\ auditState' = "closed"
          /\ pc' = "done"
          /\ hist' = [hist EXCEPT !.auditCloses = @ + 1]
       \/ /\ pc' = "catch"
          /\ hist' = Thrown("close")
          /\ UNCHANGED auditState
    /\ UNCHANGED <<variant, ret, nEvents, pendingBuffer, carryTail, flushVars, mainWrites,
                   auditWrites, mainState, mainCloseCalls, errorLogged,
                   redactVars, handlerVars>>

\* catch block: ctx.logger.error(...); in the PII variants
\* await auditStream.write('Error occurred; closing streams.\n')
Catch ==
    /\ pc = "catch"
    /\ errorLogged' = TRUE
    /\ IF variant = "confidential"
       THEN /\ pc' = "catchCloseMain"
            /\ UNCHANGED <<auditWrites, hist>>
       ELSE \/ /\ auditState = "open"
               /\ auditWrites' = Append(auditWrites, ErrorLine)
               /\ pc' = "catchCloseMain"
               /\ hist' = [Logged("audit", Len(auditWrites) + 1) EXCEPT !.recordTried = TRUE]
            \/ /\ pc' = "rejected"
               /\ hist' = [hist EXCEPT !.recordTried = TRUE, !.escaped = "write"]
               /\ UNCHANGED auditWrites
    /\ UNCHANGED <<variant, ret, nEvents, pendingBuffer, carryTail, flushVars, mainWrites,
                   closeVars, redactVars, handlerVars>>

\* catch block: await mainStream.close(), inside try {} catch {} in the PII variants
CatchCloseMain ==
    /\ pc = "catchCloseMain"
    /\ mainCloseCalls' = mainCloseCalls + 1
    /\ \/ /\ mainState' = "closed"
          /\ pc' = "catchCloseAudit"
          /\ hist' = [hist EXCEPT !.mainCloses = @ + 1, !.catchMainTried = TRUE]
       \/ /\ pc' = IF variant = "confidential" THEN "rejected" ELSE "catchCloseAudit"
          /\ hist' = [hist EXCEPT !.catchMainTried = TRUE,
                                  !.escaped = IF variant = "confidential" THEN "close" ELSE @]
          /\ UNCHANGED mainState
    /\ UNCHANGED <<variant, ret, nEvents, pendingBuffer, carryTail, flushVars, mainWrites,
                   auditWrites, auditState, auditCloseCalls, errorLogged,
                   redactVars, handlerVars>>

\* catch block: await auditStream.close(), inside try {} catch {} in the PII variants
CatchCloseAudit ==
    /\ pc = "catchCloseAudit"
    /\ auditCloseCalls' = auditCloseCalls + 1
    /\ \/ /\ auditState' = "closed"
          /\ pc' = "done"
          /\ hist' = [hist EXCEPT !.auditCloses = @ + 1, !.catchAuditTried = TRUE]
       \/ /\ pc' = IF variant = "confidential" THEN "rejected" ELSE "done"
          /\ hist' = [hist EXCEPT !.catchAuditTried = TRUE,
                                  !.escaped = IF variant = "confidential" THEN "close" ELSE @]
          /\ UNCHANGED auditState
    /\ UNCHANGED <<variant, ret, nEvents, pendingBuffer, carryTail, flushVars, mainWrites,
                   auditWrites, mainState, mainCloseCalls, errorLogged,
                   redactVars, handlerVars>>

Next ==
    \/ ReadRequest \/ CreateMain \/ CreateAudit \/ Launch
    \/ Start \/ TextDelta \/ OtherEvent \/ FinishEvent \/ StreamEnd \/ GeneratorFails
    \/ FinalCheck \/ Check \/ Detect \/ Report \/ Emit \/ Emitted
    \/ Complete \/ CloseMain \/ CloseAudit
    \/ Catch \/ CatchCloseMain \/ CatchCloseAudit

Spec == Init /\ [][Next]_vars

\* the redaction harness: inputs drawn by Init, the redactor applied once and again
InitRedact ==
    /\ SessionIdle
    /\ rpc = "input"
    /\ rFn \in {"redactConfidential", "redactPII"}
    /\ rText \in StringsUpTo(MaxTextLen)
    /\ rItems \in ItemListsOf(rFn)
    /\ rOnce = <<>> /\ rTwice = <<>>

NextRedact == RedactOnce \/ RedactTwice

SpecRedact == InitRedact /\ [][NextRedact]_vars

(***************************************************************************)
(* The redactors on input that shares no character with the markers: longer *)
(* texts over a smaller alphabet and two kinds per redactor                 *)
(***************************************************************************)
MaxPlainTextLen == 3
MaxPlainValueLen == 2
MaxPlainItems == 2

\* "a": a plain character; ".": a character special to RegExp
PlainAlphabet == {"a", "."}

PlainStringsUpTo(n) == UNION {[1..k -> PlainAlphabet] : k \in 0..n}

PlainTypesOf(fn) ==
    IF fn = "redactConfidential" THEN {TyProduct, TyRnd} ELSE {TyEmail, TyCreditCard}

\* items with a non-empty value
PlainItemsOf(fn) ==
    {Item(t, v) : t \in PlainTypesOf(fn), v \in PlainStringsUpTo(MaxPlainValueLen) \ {<<>>}}

PlainItemListsOf(fn) == UNION {[1..k -> PlainItemsOf(fn)] : k \in 0..MaxPlainItems}

InitPlain ==
    /\ SessionIdle
    /\ rpc = "input"
    /\ rFn \in {"redactConfidential", "redactPII"}
    /\ rText \in PlainStringsUpTo(MaxPlainTextLen)
    /\ rItems \in PlainItemListsOf(rFn)
    /\ rOnce = <<>> /\ rTwice = <<>>

SpecPlain == InitPlain /\ [][NextRedact]_vars

\* the task has ended: its promise resolved ("done") or rejected ("rejected")
Ended == pc \in {"done", "rejected"}

\* everything written to the main channel so far
MainOutput == Concat(mainWrites)

\* the session ran its try block to the end: no exception reached the catch block
Completed == pc = "done" /\ ~errorLogged

\* an audit line that claims items were found
IsFoundLine(line) == StartsWith(line, FoundPrefix)

(***************************************************************************)
(* Claims about the session (specification Spec)                           *)
(***************************************************************************)

\* C1. No double emission: over a complete session, in every variant, the
\* concatenation of the main-channel writes is the concatenated deltas with
\* every detected item replaced by its marker, exactly once.
NoDoubleEmission ==
    Completed => MainOutput = RedactFor(variant, hist.raw, hist.detected)

\* C2. Boundary span capture: when SecretValue (10 characters, at most
\* CARRY_TAIL_LENGTH) is split by a flush boundary and the Detector answers
\* exactly with the sensitive values that occur in its text, the main-channel
\* output of the complete session is the raw text with the value replaced by
\* its marker as a whole: no fragment of the value, no partial marker. Stated
\* for the size-only variants, whose flush skips the overlap.
BoundarySpanCapture ==
    (Completed /\ variant \in SizeOnly /\ hist.exact /\ hist.split)
        => MainOutput = RedactFor(variant, hist.raw, <<SecretItem(variant)>>)

\* C3. Fail-open and clean text: while every Detector call failed or answered
\* [], no 'Found' line is on the audit channel, a Detector failure is not what
\* sends the session to the catch block, and the main-channel output of a
\* complete session is the concatenated deltas.
FailOpenCleanText ==
    (hist.detected = <<>>) =>
        /\ \A i \in 1..Len(auditWrites) : ~IsFoundLine(auditWrites[i])
        /\ (errorLogged \/ pc = "catch") => hist.cause # ""
        /\ Completed => MainOutput = hist.raw

\* C3, the size-only variants alone.
FailOpenSizeOnly == variant \in SizeOnly => FailOpenCleanText

\* C4. Overlap is skipped on every flush: in every variant a step that writes
\* to the main channel writes sanitized.slice(carryTail.length), carryTail as
\* at the start of the flush.
OverlapSkipped ==
    [][mainWrites' # mainWrites
         => mainWrites' = Append(mainWrites, SliceFrom(sanitized, Len(carryTail)))]_vars

\* C5. Channel lifecycle: when the background task has ended, on whatever
\* path, each of the two channels has been closed exactly once.
ChannelLifecycle == Ended => hist.mainCloses = 1 /\ hist.auditCloses = 1

\* C6. Independent close on the error path: after an exception reached the
\* catch block, the task ends having called close() on both channels, and no
\* failure of a close() escapes the task. Stated for the confidential variant,
\* the first of the three the claim names.
IndependentClose ==
    (Ended /\ errorLogged /\ variant = "confidential") =>
        /\ hist.catchMainTried
        /\ hist.catchAuditTried
        /\ hist.escaped # "close"

\* C10. Generator and channel-write failures are fatal and recorded: a session
\* whose Generator or channel write failed ends through the catch block with
\* no flush completed after the failure, both channels closed and a write of
\* the failure to the audit channel attempted. Stated for the confidential
\* variant, the first of the variants the claim names.
FatalAndRecorded ==
    (Ended /\ variant = "confidential"
           /\ hist.cause \in {"generator", "mainWrite", "auditWrite"}) =>
        /\ errorLogged
        /\ mainState = "closed" /\ auditState = "closed"
        /\ hist.recordTried

\* C11. Flush on a Generator error (README, Error Handling): when the
\* Generator failed while pendingBuffer was not empty, then by the time the
\* catch block closes the channels the error was logged and the pending buffer
\* was flushed, and a task that ends normally called close() on both channels.
FlushOnGeneratorError ==
    (/\ hist.cause = "generator" /\ hist.errPending > 0
     /\ pc \in {"catchCloseMain", "catchCloseAudit", "done", "rejected"}) =>
        /\ errorLogged
        /\ hist.flushes > hist.errFlushes
        /\ pc = "done" => (mainCloseCalls > 0 /\ auditCloseCalls > 0)

\* C12. Live stream before completion: once the background task exists, after
\* a setup in which nothing threw, the handler has already returned the main
\* channel's reader; every write of the task happens after that.
LiveStream ==
    /\ (pc # "notStarted" /\ hist.setup = "") => (hpc = "returned" /\ response = "stream")
    /\ response = "stream" => hist.setup = ""

\* C12: the task is in the middle of a flush, with text already written to the
\* main channel, and the handler returned the reader.
LiveStreamWitness ==
    /\ response = "stream" /\ pc = "detect" /\ Len(mainWrites) > 0 /\ mainState = "open"

\* C13. Setup failure: when reading the request or creating a channel threw,
\* the handler has returned the text response, the background task was not
\* started and nothing was written to either channel.
SetupFailureResponse ==
    hist.setup \in {"request", "main", "audit"} =>
        /\ hpc = "returned" /\ response = "text"
        /\ pc = "notStarted"
        /\ mainWrites = <<>> /\ auditWrites = <<>>
        /\ hist.order = <<>>

\* C13: the creation of the audit channel threw after the main channel was
\* created, and the handler returned the text response.
SetupFailureWitness ==
    /\ hist.setup = "audit" /\ response = "text" /\ mainState = "open" /\ auditState = "none"

\* the 'Stream complete.' line was written
CompleteWritten == \E i \in 1..Len(auditWrites) : auditWrites[i] = CompleteLine

DrainFlushes == IF hist.endPending > 0 THEN 1 ELSE 0

\* C14. Draining: after the loop ended (a 'finish' event or the end of the
\* events) no delta is appended; while nothing throws, at most one more flush
\* runs, it runs only if pendingBuffer was not empty, on that buffer, it has
\* returned before 'Stream complete.' is written and before either close() is
\* called, and with an empty buffer no flush runs.
Draining ==
    hist.ended # "" =>
        /\ hist.raw = hist.endRaw
        /\ hist.flushes <= hist.endFlushes + DrainFlushes
        /\ hist.flushes > hist.endFlushes => hist.lastBuffer = pendingBuffer
        /\ hist.flushes < hist.endFlushes + DrainFlushes =>
              /\ ~CompleteWritten
              /\ hist.cause = "" => mainCloseCalls = 0 /\ auditCloseCalls = 0
        /\ hist.cause = "" =>
              (pc \in {"closeMain", "closeAudit", "done"}
                  <=> (CompleteWritten /\ hist.flushes = hist.endFlushes + DrainFlushes))

\* C14: a complete session whose loop ended on 'finish' with text pending,
\* after a flush in the loop, and whose final flush ran.
DrainingWitness ==
    /\ Completed /\ hist.ended = "finish" /\ hist.endPending > 0
    /\ hist.endFlushes >= 1 /\ hist.flushes = hist.endFlushes + 1

\* a step of the loop that pulled a text delta
PulledDelta == pc = "loop" /\ hist'.order # hist.order

\* C15. Size-only flush policy: in the size-only variants a step of the loop
\* starts a flush if and only if it appended a delta and pendingBuffer then has
\* at least CHAR_THRESHOLD characters; while the task waits for the next event
\* pendingBuffer is shorter than CHAR_THRESHOLD.
SizeOnlyPolicy ==
    /\ [](variant \in SizeOnly /\ pc = "loop" => Len(pendingBuffer) < CHAR_THRESHOLD)
    /\ [][(variant \in SizeOnly /\ pc = "loop") =>
              ((pc' = "check")
                  <=> (PulledDelta /\ Len(pendingBuffer') >= CHAR_THRESHOLD))]_vars

\* C15: a flush starts in a size-only variant with exactly CHAR_THRESHOLD
\* characters pending, one character after a delta that left 199 pending.
SizeOnlyPolicyWitness ==
    /\ variant \in SizeOnly /\ pc = "check" /\ ret = "loop"
    /\ Len(pendingBuffer) = CHAR_THRESHOLD
    /\ pendingBuffer = DeltaHead \o DeltaBlank

\* one of . ! ? immediately followed by a whitespace character, anywhere in buf
HasSentenceEnd(buf) ==
    \E i \in 1..Len(buf) :
        /\ i < Len(buf)
        /\ buf[i] = "." \/ buf[i] = "!" \/ buf[i] = "?"
        /\ buf[i + 1] \in {" ", "\t", "\n", "\r"}

\* C16. Size-or-sentence flush policy: in the size-or-sentence variant a step
\* that appended a delta starts a flush if and only if pendingBuffer then has at
\* least CHAR_THRESHOLD characters, or at least MIN_SENTENCE_CHARS characters
\* and a sentence end anywhere in it.
SizeOrSentencePolicy ==
    [][(variant = "sentence" /\ pc = "loop") =>
          ((pc' = "check")
              <=> /\ PulledDelta
                  /\ \/ Len(pendingBuffer') >= CHAR_THRESHOLD
                     \/ /\ Len(pendingBuffer') >= MIN_SENTENCE_CHARS
                        /\ HasSentenceEnd(pendingBuffer'))]_vars

\* C16: a sentence flush starts at exactly MIN_SENTENCE_CHARS characters; the
\* sentence end lies in an earlier delta, the delta just appended is a space.
SizeOrSentencePolicyWitness ==
    /\ variant = "sentence" /\ pc = "check" /\ ret = "loop"
    /\ pendingBuffer = DeltaRest \o DeltaBlank
    /\ Len(pendingBuffer) = MIN_SENTENCE_CHARS

\* what the i-th entry of hist.order is: a delta, a main write, or the audit
\* line 'Checking ...', the found / not-found line, 'Emitted ...', or another
OrderKind(i) ==
    LET e == hist.order[i] IN
    IF e[1] # "audit" THEN e[1]
    ELSE LET line == auditWrites[e[2]] IN
         IF StartsWith(line, <<"C", "h", "e", "c", "k", "i", "n", "g", " ">>) THEN "checking"
         ELSE IF IsFoundLine(line) \/ line = NothingFoundLine(variant) THEN "verdict"
         ELSE IF StartsWith(line, <<"E", "m", "i", "t", "t", "e", "d", " ">>) THEN "emitted"
         ELSE "other"

\* C17. Strictly sequential flushes: in the order in which deltas were pulled
\* and writes were made, a flush's writes are contiguous and in source order
\* ('Checking', then the found / not-found line, then the main write, then
\* 'Emitted'), a flush starts only after the previous one's writes, and no
\* delta is pulled between the writes of a flush. Stated of the latest entry
\* of the order and the one before it: the order only grows at its end, so
\* every entry is the latest one in the state that follows its step.
SequentialFlushes ==
    LET i == Len(hist.order) IN
    i > 0 =>
        LET k == OrderKind(i)
            before == IF i = 1 THEN "nothing" ELSE OrderKind(i - 1)
        IN  /\ k = "checking" => before \in {"delta", "other"}
            /\ k = "verdict" => before = "checking"
            /\ k = "main" => before = "verdict"
            /\ k = "emitted" => before = "main"
            /\ k = "delta" => /\ before \notin {"checking", "nothing"}
                              /\ variant \in SizeOnly => before # "main"
            /\ hist.order[i][1] = "audit" => hist.order[i][2] = Len(auditWrites)
            /\ hist.order[i][1] = "main" => hist.order[i][2] = Len(mainWrites)

\* C17: a second flush is under way in a size-only variant: two 'Checking'
\* lines, the first flush's main write and 'Emitted' line between them.
SequentialFlushesWitness ==
    /\ variant \in SizeOnly /\ pc = "detect" /\ hist.flushes = 1
    /\ Len(mainWrites) = 1
    /\ \E i \in 1..Len(hist.order) : OrderKind(i) = "emitted"

ScenarioRaw == DeltaEmail \o DeltaPhone

ScenarioItems == <<Item(TyEmail, SecretValue), Item(TyPhone, PhoneValue)>>

ScenarioOutput ==
    <<"M", "y", " ", "e", "m", "a", "i", "l", " ", "i", "s", " ", "[", "R", "E", "D", "A",
      "C", "T", "E", "D", ":", "E", "M", "A", "I", "L", "]", " ", "a", "n", "d", " ", "m",
      "y", " ", "p", "h", "o", "n", "e", " ", "i", "s", " ", "[", "R", "E", "D", "A", "C",
      "T", "E", "D", ":", "P", "H", "O", "N", "E", "]", ".">>

\* a complete session of a PII variant on the two deltas of the scenario, the
\* Detector having returned the e-mail address and the phone number
ScenarioRun(vs) ==
    /\ Completed /\ variant \in vs
    /\ hist.raw = ScenarioRaw /\ hist.detected = ScenarioItems

AuditText == Concat(auditWrites)

InAudit(line) == \E i \in 1..Len(auditWrites) : auditWrites[i] = line

\* a complete session that flushed once, at the end, on the whole text: its
\* main output and its audit lines
OneDrainFlush ==
    /\ hist.flushes = 1
    /\ hist.lastBuffer = hist.raw /\ hist.lastTail = <<>>
    /\ MainOutput = RedactFor(variant, hist.raw, hist.detected)
    /\ InAudit(CheckingLine(Len(hist.raw)))
    /\ auditWrites[Len(auditWrites)] = CompleteLine

\* C18 as stated. Single-drain scenario, PII size-only variant: with a text
\* shorter than the size threshold the session flushes once, on the whole
\* text; the main channel receives the redacted text; the audit channel has
\* 'Checking N chars...', 'Found K item(s): kinds' and the completion line;
\* on the scenario's deltas the output is ScenarioOutput and the audit lines
\* include "Checking 54 chars..." and "Found 2 item(s): email, phone".
SingleDrainScenario ==
    /\ (Completed /\ variant = "pii" /\ hist.raw # <<>> /\ Len(hist.raw) < CHAR_THRESHOLD)
          => OneDrainFlush
    /\ ScenarioRun({"pii"}) =>
          /\ MainOutput = ScenarioOutput
          /\ Contains(AuditText,
                <<"C", "h", "e", "c", "k", "i", "n", "g", " ", "5", "4", " ", "c", "h", "a",
                  "r", "s", ".", ".", ".">>)
          /\ Contains(AuditText,
                <<"F", "o", "u", "n", "d", " ", "2", " ", "i", "t", "e", "m", "(", "s", ")",
                  ":", " ", "e", "m", "a", "i", "l", ",", " ", "p", "h", "o", "n", "e">>)

\* C18 as amended. With a non-empty text shorter than the size threshold and
\* no flush during streaming (always so in the size-only variants) the session
\* flushes once, on the whole text; the main channel receives the redacted
\* text; the audit channel has 'Checking N chars...' with N the length of the
\* text, the found line of the variant with the kinds in Detector order (the
\* not-found line when nothing was detected) and, last, the completion line.
\* On the scenario's deltas the output is ScenarioOutput and the audit lines
\* are 'Checking 52 chars...' and 'Found 2 PII item(s): email, phone'.
SingleDrainAmended ==
    /\ (Completed /\ variant \in SizeOnly /\ Len(hist.raw) < CHAR_THRESHOLD)
          => hist.endFlushes = 0
    /\ (Completed /\ hist.raw # <<>> /\ Len(hist.raw) < CHAR_THRESHOLD
                  /\ hist.endFlushes = 0) =>
          /\ OneDrainFlush
          /\ InAudit(IF hist.detected = <<>> THEN NothingFoundLine(variant)
                     ELSE FoundLine(variant, hist.detected))
    /\ ScenarioRun({"pii", "sentence"}) =>
          /\ MainOutput = ScenarioOutput
          /\ InAudit(<<"C", "h", "e", "c", "k", "i", "n", "g", " ", "5", "2", " ", "c", "h",
                       "a", "r", "s", ".", ".", ".", "\n">>)
          /\ InAudit(<<"F", "o", "u", "n", "d", " ", "2", " ", "P", "I", "I", " ", "i", "t",
                       "e", "m", "(", "s", ")", ":", " ", "e", "m", "a", "i", "l", ",", " ",
                       "p", "h", "o", "n", "e", "\n">>)

\* C18: the scenario ran to completion in the PII size-only variant.
SingleDrainWitness == ScenarioRun({"pii"}) /\ hist.flushes = 1 /\ Len(mainWrites) = 1

\* C19. Close failures during normal closing are swallowed: when the first
\* exception of the session is a close() that failed after 'Stream complete.',
\* no error is logged, no error line is written to the audit channel, and by
\* the end of the task the other channel is closed.
CloseFailureSwallowed ==
    hist.cause = "close" =>
        /\ ~errorLogged
        /\ ~InAudit(ErrorLine)
        /\ Ended => (mainState = "closed" \/ auditState = "closed")

\* a flush has just returned: nothing was pulled or written since
FlushJustReturned ==
    /\ hist.flushes > 0 /\ pc \in {"loop", "complete"} /\ pendingBuffer \in {<<>>, hist.lastBuffer}
    /\ hist.order[Len(hist.order)][1] # "delta"

\* C20. Carry-tail invariant: carryTail never has more than CARRY_TAIL_LENGTH
\* characters; it is empty until a flush returned; after a flush it is the last
\* min(CARRY_TAIL_LENGTH, len(sanitized)) characters of that flush's sanitized
\* string, which, when the flush returns, is the redacted carryTail + buffer
\* of that flush.
CarryTailInvariant ==
    /\ Len(carryTail) <= CARRY_TAIL_LENGTH(variant)
    /\ hist.flushes = 0 => carryTail = <<>>
    /\ hist.flushes > 0 =>
          LET san == hist.lastSanitized
              n == IF Len(san) < CARRY_TAIL_LENGTH(variant) THEN Len(san)
                   ELSE CARRY_TAIL_LENGTH(variant)
          IN  /\ Len(carryTail) = n
              /\ \A k \in 1..n : carryTail[k] = san[Len(san) - n + k]
    /\ FlushJustReturned =>
          hist.lastSanitized
              = RedactFor(variant, hist.lastTail \o hist.lastBuffer, hist.lastItems)

\* C20: a second flush returned, with a redacted item in its text, and left a
\* carry tail of full length.
CarryTailWitness ==
    /\ hist.flushes >= 2 /\ hist.lastTail # <<>> /\ hist.lastItems # <<>>
    /\ Len(carryTail) = CARRY_TAIL_LENGTH(variant)
    /\ Len(hist.lastSanitized) > CARRY_TAIL_LENGTH(variant)

\* an audit line that reports an emission
IsEmittedLine(line) == StartsWith(line, <<"E", "m", "i", "t", "t", "e", "d", " ">>)

\* the flush that has just returned wrote to the main channel: its writes end
\* with the main write, or with the main write and one audit line
LastFlushWroteMain ==
    \/ hist.order[Len(hist.order)][1] = "main"
    \/ hist.order[Len(hist.order) - 1][1] = "main"

\* the position in hist.order of the first write of the flush that has just
\* returned: two audit lines, then the main write and the line after it, if any
LastFlushFirst ==
    Len(hist.order) + 1
      - (IF hist.order[Len(hist.order)][1] = "main" THEN 3
         ELSE IF hist.order[Len(hist.order) - 1][1] = "main" THEN 4 ELSE 2)

\* the audit line written at position i of hist.order
AuditLineAt(i) == auditWrites[hist.order[i][2]]

\* C22. Audit lines are truthful per flush: when a flush has returned, its
\* first line is 'Checking N chars...' with N = len(carryTail) +
\* len(pendingBuffer) as they were at its start; its second line is 'Found K
\* ... item(s): kinds' in Detector order if the Detector returned K >= 1 items
\* and the 'No ... found.' line otherwise; and it wrote an 'Emitted M chars.'
\* line if and only if it wrote to the main channel, M being the number of
\* characters written.
AuditTruthful ==
    FlushJustReturned =>
        LET n == Len(hist.order)
            first == LastFlushFirst
        IN  /\ first >= 1
            /\ hist.order[first][1] = "audit"
            /\ AuditLineAt(first)
                 = CheckingLine(Len(hist.lastTail) + Len(hist.lastBuffer))
            /\ hist.order[first + 1][1] = "audit"
            /\ AuditLineAt(first + 1)
                 = (IF Len(hist.lastItems) >= 1 THEN FoundLine(variant, hist.lastItems)
                    ELSE NothingFoundLine(variant))
            /\ LastFlushWroteMain <=>
                  \E i \in first..n : /\ hist.order[i][1] = "audit"
                                      /\ IsEmittedLine(AuditLineAt(i))
            /\ LastFlushWroteMain =>
                  /\ hist.order[n][1] = "audit"
                  /\ AuditLineAt(n) = EmittedLine(Len(mainWrites[hist.order[n - 1][2]]))

\* C22, the size-only variants alone.
AuditTruthfulSizeOnly == variant \in SizeOnly => AuditTruthful

\* carryTail is the end of the text written to the main channel so far
TailIsEmitted ==
    /\ Len(carryTail) <= Len(MainOutput)
    /\ carryTail = SubSeq(MainOutput, Len(MainOutput) - Len(carryTail) + 1, Len(MainOutput))

\* C23 (first part). In the size-only variants, at the start of every flush
\* carryTail is the last len(carryTail) characters of everything written to
\* the main channel so far.
OverlapEmittedAtStart ==
    (variant \in SizeOnly /\ pc = "check") => TailIsEmitted

\* C23. Overlap is already-emitted text: in the size-only variants, at the
\* start of every flush carryTail is the last len(carryTail) characters of
\* everything written to the main channel so far, and once the flush has
\* redacted its text, the first len(carryTail) characters of sanitized are
\* that emitted text, so that sanitized.slice(len(carryTail)) starts exactly
\* where the main channel left off, whatever the deltas and whatever the
\* Detector returned.
OverlapIsEmitted ==
    variant \in SizeOnly =>
        /\ pc = "check" => TailIsEmitted
        /\ pc = "emit" =>
              /\ TailIsEmitted
              /\ SubSeq(sanitized, 1, Len(carryTail)) = carryTail

\* C24. No write after close: on every path of the background task no step
\* writes to the main channel after mainStream.close() was called, and no step
\* writes, or tries to write, to the audit channel after auditStream.close()
\* was called, the error line of the catch block included.
NoWriteAfterClose ==
    [][/\ mainWrites' # mainWrites => mainCloseCalls = 0
       /\ auditWrites' # auditWrites => auditCloseCalls = 0
       /\ (hist'.recordTried /\ ~hist.recordTried) => auditCloseCalls = 0]_vars

\* C24, the confidential variant alone, whose catch block writes nothing.
NoWriteAfterCloseConfidential ==
    [][variant = "confidential" =>
          /\ mainWrites' # mainWrites => mainCloseCalls = 0
          /\ auditWrites' # auditWrites => auditCloseCalls = 0]_vars

\* C25. No channel leak on partial setup failure: when the handler has returned
\* its failure response, no channel that was created is still open; in
\* particular the main channel is not open after the creation of the
\* guardrail-audit channel failed.
NoChannelLeak ==
    (hpc = "returned" /\ response = "text") =>
        /\ mainState # "open"
        /\ auditState # "open"

(***************************************************************************)
(* Claims about the redactors (specification SpecRedact)                   *)
(***************************************************************************)
Applied == rpc \in {"once", "twice"}

HasValue(it) == it.value # <<>>

\* the characters the markers are written with
MarkerChars ==
    UNION {{MarkerOf(fn, t)[k] : k \in 1..Len(MarkerOf(fn, t))} :
             <<fn, t>> \in ({"redactConfidential"} \X ConfidentialTypes)
                           \cup ({"redactPII"} \X PiiTypes)}

\* no value of the item list is written with a character of the markers
\* (the marker vocabulary is disjoint from the input)
MarkerFree(its) ==
    \A i \in 1..Len(its) : \A k \in 1..Len(its[i].value) : its[i].value[k] \notin MarkerChars

\* C7. Idempotent redaction: redact(redact(T, S), S) = redact(T, S) for both
\* redactors, every text and every item list whose values share no character
\* with the markers.
IdempotentRedaction == (rpc = "twice" /\ MarkerFree(rItems)) => rTwice = rOnce

\* C7 without the restriction on the values: a value written with marker
\* characters is matched inside the markers of the first pass.
IdempotentRedactionAnyValue == rpc = "twice" => rTwice = rOnce

\* C7 for redactConfidential alone.
IdempotentConfidential == rFn = "redactConfidential" => IdempotentRedaction

\* C8. Longest-match precedence: when the text is the value of one item and
\* another item's value is a shorter, non-empty part of it that does not occur
\* in the longer item's marker, the result is the longer item's marker,
\* whatever the order of the two items.
LongestMatchPrecedence ==
    Applied =>
        \A i, j \in 1..Len(rItems) :
            (/\ Len(rItems) = 2
             /\ HasValue(rItems[i])
             /\ Len(rItems[i].value) < Len(rItems[j].value)
             /\ Contains(rItems[j].value, rItems[i].value)
             /\ ~Contains(MarkerOf(rFn, rItems[j].type), rItems[i].value)
             /\ rText = rItems[j].value)
                => rOnce = MarkerOf(rFn, rItems[j].type)

\* C9. Empty-value items are skipped: redact(T, S) = redact(T, S without its
\* empty-value items), for both redactors.
EmptyValueSkipped ==
    Applied => rOnce = Redact(rFn, rText, SelectSeq(rItems, HasValue))


\* the marker of a kind, written from the kind itself: "[REDACTED:<KIND>]"
UpperMarker(t) ==
    <<"[", "R", "E", "D", "A", "C", "T", "E", "D", ":">> \o toUpperCase(t) \o <<"]">>

\* the occurrences of the items' values in the text: <<position, item index>>
Occurrences(text, its) ==
    {p \in (1..Len(text)) \X (1..Len(its)) : OccursAt(text, its[p[2]].value, p[1])}

\* the two occurrences share a character of the text
Overlapping(its, p, q) ==
    /\ p[1] < q[1] + Len(its[q[2]].value)
    /\ q[1] < p[1] + Len(its[p[2]].value)

\* the text with every occurrence of the set P replaced by the marker of its
\* item, and every other character kept
RECURSIVE ReplaceOccurrences(_, _, _, _)
ReplaceOccurrences(text, its, P, from) ==
    IF from > Len(text) THEN <<>>
    ELSE LET here == {p \in P : p[1] = from}
         IN  IF here = {}
             THEN <<text[from]>> \o ReplaceOccurrences(text, its, P, from + 1)
             ELSE LET p == CHOOSE q \in here : TRUE
                  IN  UpperMarker(its[p[2]].type)
                      \o ReplaceOccurrences(text, its, P, from + Len(its[p[2]].value))

====
